---- MODULE Spec2Model ----
(***************************************************************************)
(* Sliding-window rate limiter of internal/middlewares/ratelimit.go:       *)
(* the registry (RateLimiter.clients), the per-client counters             *)
(* (clientInfo.requests), the request path (isAllowed) run by concurrent   *)
(* request goroutines, and the cleanup goroutine driven by cleanupTicker.  *)
(*                                                                         *)
(* Time is counted in clock ticks; TicksPerSecond ticks make one second,   *)
(* so that sub-second instants exist.  time.Now() may return the same      *)
(* reading to several calls (a coarse clock), hence several steps can      *)
(* happen at one value of clock.                                           *)
(***************************************************************************)
EXTENDS Integers, Sequences, FiniteSets, TLC

\* ---------------------------------------------------------------- bounds
TicksPerSecond == 2
WindowSeconds == 2
MaxRequestsBound == 2
NumThreads == 4
MaxTime == 9
MaxSkews == 1
MaxStops == 2
MaxLen == 3
MaxAddrLen == 5

Clients == {"A", "B"}
Threads == 1..NumThreads
\* A counter is referenced by the registry or by a goroutine that looked it
\* up, so this many heap cells always suffice: it bounds nothing.
Counters == 1..(Cardinality(Clients) + NumThreads)
NoCounter == 0
Times == 0..MaxTime

\* r.URL.Path of the requests: one limited path and the three health paths
Paths == {"/api", "/healthz", "/livez", "/readyz"}

\* time.Duration(cfg.RateLimit.WindowSeconds) * time.Second, in ticks
windowSize == WindowSeconds * TicksPerSecond

VARIABLES
    maxRequests,  \* RateLimiter.maxRequests
    keys,         \* the client keys requests arrive with
    calls,        \* the number of requests that arrive
    paths,        \* the URL paths requests arrive with
    clock,        \* the reading time.Now() returns
    skews,        \* how many times the clock was set back
    clients,      \* RateLimiter.clients: key -> counter (NoCounter: no entry)
    requests,     \* clientInfo.requests of every counter on the heap
    cmu,          \* clientInfo.mu: 0 when free, else the goroutine holding it
    rlmu,         \* RateLimiter.mu: "free" or "sweeper"
    pc,           \* position of each request goroutine
    key,          \* clientID argument of each running isAllowed call
    ref,          \* the local variable client of each running isAllowed call
    path,         \* r.URL.Path of each running handler
    spc,          \* position of the cleanup goroutine
    snow,         \* cleanup's local now
    todo,         \* keys the cleanup's range loop has still to visit
    scur,         \* key the cleanup loop is at
    soldest,      \* cleanup's local oldestRequest
    tickPending,  \* a tick is buffered in cleanupTicker.C
    stops,        \* the calls of Stop that have returned
    request,      \* the *http.Request getClientIP is called with
    clientIP,     \* what getClientIP returned (NoResult: not called)
    admitted,     \* history: per client, its admissions inside the window
    swept,        \* history: clients a sweep took the entry of while in use
    notBefore,    \* history: per client, when the oldest timestamp of its
                  \*   latest denials ages out
    retryAt,      \* history: per client, the instant its latest denial told
                  \*   it to retry at
    idleAtSweep,  \* history: clients that were idle when the sweep began
    fresh,        \* history: per client, decisions since an idle client's
                  \*   entry was swept (maxRequests + 1: never swept so)
    last          \* history: the latest decision isAllowed returned

vars == <<maxRequests, keys, calls, paths, clock, skews, clients, requests,
          cmu, rlmu, pc, key, ref, path, spc, snow, todo, scur, soldest,
          tickPending, stops, request, clientIP, admitted, swept, notBefore, retryAt, idleAtSweep, fresh, last>>

cfgVars == <<maxRequests, keys, calls, paths>>
reqVars == <<pc, key, ref, path>>
httpVars == <<request, clientIP>>
sweepVars == <<spc, snow, todo, scur, soldest>>
histVars == <<admitted, swept, notBefore, retryAt, idleAtSweep, fresh, last>>

\* ------------------------------------------------------------- helpers

\* Variant of After that also holds at the cutoff itself
AfterOrAt(t, cutoff) == t >= cutoff

\* reqTime.After(cutoff)
After(t, cutoff) == t > cutoff

\* Variant of Sub with the operands swapped
SubSwapped(now, t) == t - now

\* now.Sub(t)
Sub(now, t) == now - t

\* Variant of validRequests that prunes nothing
validRequestsUnpruned(reqs, now) == reqs

\* ratelimit.go:96-102: keep the timestamps inside the window
validRequests(reqs, now) ==
    LET cutoff == now - windowSize
    IN  SelectSeq(reqs, LAMBDA reqTime : After(reqTime, cutoff))

\* Variant of IntSeconds that rounds up
IntSecondsCeil(d) == (d + TicksPerSecond - 1) \div TicksPerSecond

\* int(d.Seconds()): Duration.Seconds() is d/1e9 as a float; int() truncates
\* toward zero
IntSeconds(d) ==
    IF d >= 0 THEN d \div TicksPerSecond ELSE -((-d) \div TicksPerSecond)

\* What stands for the runtime panic "index out of range" of requests[0] on
\* an empty slice
OutOfRange == -1

\* client.requests[0] (ratelimit.go:59 and 107)
Oldest(reqs) == IF Len(reqs) = 0 THEN OutOfRange ELSE reqs[1]

\* Variant of retryAfter without the added second and without the floor of 1
retryAfterTruncated(reqs, now) ==
    IntSeconds(windowSize - Sub(now, reqs[1]))

\* ratelimit.go:107-112
retryAfter(reqs, now) ==
    LET oldestRequest == Oldest(reqs)
        timeUntilExpiry == windowSize - Sub(now, oldestRequest)
        r == IntSeconds(timeUntilExpiry) + 1
    IN  IF r < 1 THEN 1 ELSE r

\* Variant of limitExceeded that finds the limit reached at once
limitExceededAlways(reqs, limit) == TRUE

\* Variant of limitExceeded that never finds the limit reached
limitExceededNever(reqs, limit) == FALSE

\* Variant of limitExceeded that lets one more request in
limitExceededLate(reqs, limit) == Len(reqs) > limit

\* ratelimit.go:105: the limit is reached
limitExceeded(reqs, limit) == Len(reqs) >= limit

\* Variant of Decide that puts now in front of the sequence
DecidePrepending(reqs, now, limit) ==
    LET valid == validRequests(reqs, now)
    IN  IF limitExceeded(valid, limit)
        THEN [allowed |-> FALSE, retryAfter |-> retryAfter(valid, now),
              requests |-> valid]
        ELSE [allowed |-> TRUE, retryAfter |-> 0,
              requests |-> <<now>> \o valid]

\* Variant of Decide that appends now on a denial as well
DecideCounting(reqs, now, limit) ==
    LET valid == validRequests(reqs, now)
    IN  IF limitExceeded(valid, limit)
        THEN [allowed |-> FALSE, retryAfter |-> retryAfter(valid, now),
              requests |-> Append(valid, now)]
        ELSE [allowed |-> TRUE, retryAfter |-> 0,
              requests |-> Append(valid, now)]

\* ratelimit.go:92-118: the decision and the counter's new sequence
Decide(reqs, now, limit) ==
    LET valid == validRequests(reqs, now)
    IN  IF limitExceeded(valid, limit)
        THEN [allowed |-> FALSE, retryAfter |-> retryAfter(valid, now),
              requests |-> valid]
        ELSE [allowed |-> TRUE, retryAfter |-> 0,
              requests |-> Append(valid, now)]

\* Variant of isStale that waits for two windows
isStaleLate(now, oldestRequest) == Sub(now, oldestRequest) > 2 * windowSize

\* ratelimit.go:62: the entry is taken for idle
isStale(now, oldestRequest) == Sub(now, oldestRequest) > windowSize

\* ratelimit.go:37: time.NewTicker(windowSize) sends a tick every windowSize
\* into a channel that buffers one tick and drops the rest
TickDue(now) == now % windowSize = 0

\* Counters some goroutine or the registry still points at, given a registry
\* and the goroutines' references
Live(cl, rf) == {cl[k] : k \in Clients} \cup {rf[t] : t \in Threads}

\* The garbage collector: a counter nobody references is gone
Collect(reqs, cl, rf) ==
    [c \in Counters |-> IF c \in Live(cl, rf) THEN reqs[c] ELSE <<>>]

\* Variant of NewCounter that hands out one and the same cell
SharedCounter == CHOOSE c \in Counters : \A d \in Counters : c <= d

\* &clientInfo{requests: make([]time.Time, 0)}: a fresh heap cell
NewCounter == CHOOSE c \in Counters :
    /\ c \notin Live(clients, ref)
    /\ \A d \in Counters : d \notin Live(clients, ref) => c <= d

\* ------------------------------------------------- middleware helpers
\* Variant of isBypassPath that lets no path skip the limiter
isBypassPathNever(p) == FALSE

\* Variant of isBypassPath that forgets the readiness path
isBypassPathShort(p) == p = "/healthz" \/ p = "/livez"

\* ratelimit.go:156: the health endpoints skip rate limiting
isBypassPath(p) == p = "/healthz" \/ p = "/livez" \/ p = "/readyz"

\* http.StatusTooManyRequests
StatusTooManyRequests == 429

\* The middleware wrote no status: the downstream handler answers
NoStatus == 0

DigitChars == <<"0", "1", "2", "3", "4", "5", "6", "7", "8", "9">>

\* strconv.Itoa: the decimal digits of n, most significant first, after a
\* minus sign when n is negative
RECURSIVE Itoa(_)
Itoa(n) ==
    IF n < 0 THEN <<"-">> \o Itoa(-n)
    ELSE IF n < 10 THEN <<DigitChars[n + 1]>>
    ELSE Itoa(n \div 10) \o <<DigitChars[(n % 10) + 1]>>

\* ratelimit.go:173-176: the JSON error body
ErrorBody == [error |-> "rate_limit_exceeded",
              message |-> "Too many requests. Please try again later."]

\* Nothing written to the response body
NoBody == [error |-> "", message |-> ""]

\* ratelimit.go:157 and 180: next.ServeHTTP(w, r), nothing written here
Forward == [status |-> NoStatus, contentType |-> "", retryAfterHeader |-> <<>>,
            body |-> NoBody, forwarded |-> 1]

\* ratelimit.go:168-177: the 429 answer; the handler returns before line 180
TooManyRequests(retry) ==
    [status |-> StatusTooManyRequests, contentType |-> "application/json",
     retryAfterHeader |-> Itoa(retry), body |-> ErrorBody, forwarded |-> 0]

\* Variant of Respond without the return of line 177: the denied request is
\* answered and forwarded as well
RespondFallThrough(allowed, retry) ==
    IF ~allowed
    THEN [TooManyRequests(retry) EXCEPT !.forwarded = 1]
    ELSE Forward

\* ratelimit.go:166-180: what the middleware does with isAllowed's decision
Respond(allowed, retry) ==
    IF ~allowed THEN TooManyRequests(retry) ELSE Forward

\* The record of one handled request: the key and path it came with, the
\* decision of isAllowed and the middleware's answer
Handled(k, p, allowed, retry, answer) ==
    [key |-> k, path |-> p, allowed |-> allowed, retryAfter |-> retry,
     status |-> answer.status, contentType |-> answer.contentType,
     retryAfterHeader |-> answer.retryAfterHeader, body |-> answer.body,
     forwarded |-> answer.forwarded]

NoDecision == Handled("", "", TRUE, 0,
                      [Forward EXCEPT !.forwarded = 0])

\* The admissions of a history that lie inside the window ending at now
InWindow(adm, now) == SelectSeq(adm, LAMBDA a : a > now - windowSize)

\* Requests of client k that hold a counter and have not been decided
InFlight(k, pcs, ks) ==
    {t \in Threads : pcs[t] \in {"lock", "eval"} /\ ks[t] = k}

\* ------------------------------------------------ client identification
\* Strings are sequences of characters.  The characters that matter to
\* getClientIP, and one that stands for every other character
Chars == {"1", ":", "[", "]", ",", " "}

\* The strings of at most n characters
Strings(n) == UNION {[1..m -> Chars] : m \in 0..n}

\* unicode.IsSpace, for the characters at hand
WhiteSpace == {" "}

\* strings.Index(s, c) and bytealg.IndexByteString: the 0-based position of
\* the first c in s, -1 when there is none
Index(s, c) ==
    IF \E i \in 1..Len(s) : s[i] = c
    THEN (CHOOSE i \in 1..Len(s) :
             s[i] = c /\ \A j \in 1..(i - 1) : s[j] # c) - 1
    ELSE -1

\* Variant of LastIndex that stops at the first c
LastIndexFirst(s, c) == Index(s, c)

\* bytealg.LastIndexByteString: the 0-based position of the last c in s
LastIndex(s, c) ==
    IF \E i \in 1..Len(s) : s[i] = c
    THEN (CHOOSE i \in 1..Len(s) :
             s[i] = c /\ \A j \in (i + 1)..Len(s) : s[j] # c) - 1
    ELSE -1

\* The Go slice expression s[lo:hi], 0-based, hi excluded
Slice(s, lo, hi) == SubSeq(s, lo + 1, hi)

\* strings.TrimLeft(s, cutset)
RECURSIVE TrimLeft(_, _)
TrimLeft(s, cutset) ==
    IF s # <<>> /\ Head(s) \in cutset THEN TrimLeft(Tail(s), cutset) ELSE s

\* strings.TrimRight(s, cutset)
RECURSIVE TrimRight(_, _)
TrimRight(s, cutset) ==
    IF s # <<>> /\ s[Len(s)] \in cutset
    THEN TrimRight(SubSeq(s, 1, Len(s) - 1), cutset)
    ELSE s

\* strings.Trim(s, cutset): the leading and the trailing characters of the
\* cutset are removed
Trim(s, cutset) == TrimRight(TrimLeft(s, cutset), cutset)

\* strings.TrimSpace(s)
TrimSpace(s) == Trim(s, WhiteSpace)

\* The error result of net.SplitHostPort
AddrError == [host |-> <<>>, port |-> <<>>, err |-> TRUE]

\* net.SplitHostPort(hostport), called at ratelimit.go:138: the port starts
\* after the last colon; a host that begins with "[" must end with the first
\* "]", right before that colon; no other bracket and, outside brackets, no
\* other colon is allowed
SplitHostPort(hostport) ==
    LET i == LastIndex(hostport, ":")
        end == Index(hostport, "]")
        bracketed == hostport[1] = "["
        host == IF bracketed THEN Slice(hostport, 1, end)
                ELSE Slice(hostport, 0, i)
        j == IF bracketed THEN 1 ELSE 0
        k == IF bracketed THEN end + 1 ELSE 0
    IN  IF i < 0 THEN AddrError
        ELSE IF bracketed /\ (end < 0 \/ end + 1 # i) THEN AddrError
        ELSE IF ~bracketed /\ Index(host, ":") >= 0 THEN AddrError
        ELSE IF Index(Slice(hostport, j, Len(hostport)), "[") >= 0
             THEN AddrError
        ELSE IF Index(Slice(hostport, k, Len(hostport)), "]") >= 0
             THEN AddrError
        ELSE [host |-> host, port |-> Slice(hostport, i + 1, Len(hostport)),
              err |-> FALSE]

\* Variant of getClientIP that looks at X-Real-IP before X-Forwarded-For
getClientIPRealFirst(req) ==
    IF req.xri # <<>> THEN TrimSpace(req.xri)
    ELSE IF req.xff # <<>>
    THEN LET idx == Index(req.xff, ",")
         IN  TrimSpace(IF idx # -1 THEN Slice(req.xff, 0, idx) ELSE req.xff)
    ELSE LET split == SplitHostPort(req.remoteAddr)
         IN  IF split.err THEN req.remoteAddr ELSE Trim(split.host, {"[", "]"})

\* ratelimit.go:122-147
getClientIP(req) ==
    IF req.xff # <<>>
    THEN LET idx == Index(req.xff, ",")
         IN  TrimSpace(IF idx # -1 THEN Slice(req.xff, 0, idx) ELSE req.xff)
    ELSE IF req.xri # <<>> THEN TrimSpace(req.xri)
    ELSE LET split == SplitHostPort(req.remoteAddr)
         IN  IF split.err THEN req.remoteAddr ELSE Trim(split.host, {"[", "]"})

\* A request as getClientIP reads it: r.Header.Get("X-Forwarded-For"),
\* r.Header.Get("X-Real-IP") and r.RemoteAddr
Request(xff, xri, remoteAddr) ==
    [xff |-> xff, xri |-> xri, remoteAddr |-> remoteAddr]

NoRequest == Request(<<>>, <<>>, <<>>)

\* getClientIP has not been called
NoResult == <<"?">>

\* The requests getClientIP is given: every forwarded chain before a short
\* X-Real-IP and two socket addresses, every X-Real-IP, every socket address
Requests ==
    {Request(xff, xri, a) : xff \in Strings(MaxLen), xri \in Strings(1),
                            a \in {<<"1", ":", "1">>,
                                   <<"[", "1", "]", ":", "1">>}}
    \cup {Request(<<>>, xri, <<"1", ":", "1">>) : xri \in Strings(MaxLen)}
    \cup {Request(<<>>, <<>>, a) : a \in Strings(MaxAddrLen)}

\* ---------------------------------------------------------------- Init
\* NewRateLimiter: an empty registry, the ticker started, cleanup waiting
InitLimiter ==
    /\ maxRequests \in 1..MaxRequestsBound
    /\ clock = 0
    /\ skews = 0
    /\ clients = [k \in Clients |-> NoCounter]
    /\ requests = [c \in Counters |-> <<>>]
    /\ cmu = [c \in Counters |-> 0]
    /\ rlmu = "free"
    /\ pc = [t \in Threads |-> "idle"]
    /\ key = [t \in Threads |-> ""]
    /\ ref = [t \in Threads |-> NoCounter]
    /\ spc = "wait"
    /\ snow = 0
    /\ todo = {}
    /\ scur = ""
    /\ soldest = 0
    /\ path = [t \in Threads |-> ""]
    /\ tickPending = FALSE
    /\ stops = 0
    /\ admitted = [k \in Clients |-> <<>>]
    /\ swept = {}
    /\ notBefore = [k \in Clients |-> 0]
    /\ retryAt = [k \in Clients |-> 0]
    /\ idleAtSweep = {}
    /\ fresh = [k \in Clients |-> maxRequests + 1]
    /\ last = NoDecision

\* The requests are on the limited path, and getClientIP is left aside: the
\* client keys come from keys
InitLimited ==
    /\ InitLimiter
    /\ paths = {"/api"}
    /\ request = NoRequest
    /\ clientIP = NoResult

\* NumThreads requests of one client
Init ==
    /\ InitLimited
    /\ keys = {"A"}
    /\ calls = NumThreads

\* One request fewer, of two clients
InitClients ==
    /\ InitLimited
    /\ keys = Clients
    /\ calls = NumThreads - 1

\* The requests of one client are on the limited path and on the health
\* paths
InitMiddleware ==
    /\ InitLimiter
    /\ paths = Paths
    /\ request = NoRequest
    /\ clientIP = NoResult
    /\ keys = {"A"}
    /\ calls = NumThreads

\* No request reaches the limiter; getClientIP is given one request
InitClientIP ==
    /\ InitLimiter
    /\ paths = {"/api"}
    /\ keys = {"A"}
    /\ calls = 0
    /\ request \in Requests
    /\ clientIP = NoResult

\* Two requests fewer, of one client, and Stop is called
InitStop ==
    /\ InitLimited
    /\ keys = {"A"}
    /\ calls = NumThreads - 2

\* Two requests fewer, of one client
InitSkew ==
    /\ InitLimited
    /\ keys = {"A"}
    /\ calls = NumThreads - 2

\* ------------------------------------------------------- request path
\* Every goroutine serves one request.  Goroutines that have not started are
\* interchangeable: the next request runs on the lowest of them
IsNextThread(t) ==
    /\ pc[t] = "idle"
    /\ t <= calls
    /\ \A u \in Threads : pc[u] = "idle" => t <= u

\* Variant of exists that never finds the entry
existsNever(clientID) == FALSE

\* ratelimit.go:80: the registry holds an entry for clientID
exists(clientID) == clients[clientID] # NoCounter

\* ratelimit.go:161-164 and 79-87: the middleware calls isAllowed, which does
\* rl.mu.Lock(), looks the client up, creates its counter when it is missing,
\* rl.mu.Unlock()
Lookup(t, clientID, p) ==
    /\ IsNextThread(t)
    /\ p \in paths
    /\ ~isBypassPath(p)
    /\ clientID \in keys
    /\ rlmu = "free"
    /\ LET client == IF exists(clientID) THEN clients[clientID]
                     ELSE NewCounter
       IN  /\ clients' = [clients EXCEPT ![clientID] = client]
           /\ ref' = [ref EXCEPT ![t] = client]
    /\ key' = [key EXCEPT ![t] = clientID]
    /\ path' = [path EXCEPT ![t] = p]
    /\ pc' = [pc EXCEPT ![t] = "lock"]
    /\ UNCHANGED <<cfgVars, httpVars, stops, clock, skews, requests, cmu, rlmu, sweepVars,
                   tickPending, histVars>>

\* ratelimit.go:156-159: a request on a health path goes to the downstream
\* handler at once; neither getClientIP nor isAllowed is called
Bypass(t, p) ==
    /\ IsNextThread(t)
    /\ p \in paths
    /\ isBypassPath(p)
    /\ pc' = [pc EXCEPT ![t] = "done"]
    /\ last' = Handled("", p, TRUE, 0, Forward)
    /\ UNCHANGED <<cfgVars, httpVars, stops, clock, skews, clients, requests,
                   cmu, rlmu, key, ref, path, sweepVars, tickPending,
                   admitted, swept, notBefore, retryAt, idleAtSweep, fresh>>

\* Variant of LockClient that does not wait for the holder of the lock
LockClientBarging(t) ==
    /\ pc[t] = "lock"
    /\ cmu' = [cmu EXCEPT ![ref[t]] = t]
    /\ pc' = [pc EXCEPT ![t] = "eval"]
    /\ UNCHANGED <<cfgVars, httpVars, stops, clock, skews, clients, requests,
                   rlmu, key, ref, path, sweepVars, tickPending, histVars>>

\* ratelimit.go:89: client.mu.Lock() returns once nobody holds the lock
LockClient(t) ==
    /\ pc[t] = "lock"
    /\ cmu[ref[t]] = 0
    /\ cmu' = [cmu EXCEPT ![ref[t]] = t]
    /\ pc' = [pc EXCEPT ![t] = "eval"]
    /\ UNCHANGED <<cfgVars, httpVars, stops, clock, skews, clients, requests, rlmu, key, ref,
                   path, sweepVars, tickPending, histVars>>

\* Variant of Unlock that leaves the lock held
UnlockNever(mu, client) == mu

\* ratelimit.go:90: the deferred client.mu.Unlock()
Unlock(mu, client) == [mu EXCEPT ![client] = 0]

\* A client is pristine when nothing remembers it: no admission inside the
\* window ending at now and no request in flight
Pristine(k, adm, now, pcs, ks) ==
    InWindow(adm[k], now) = <<>> /\ InFlight(k, pcs, ks) = {}

\* ratelimit.go:92-118 with the deferred client.mu.Unlock() of line 90, and
\* ratelimit.go:166-180: the middleware answers 429 or forwards the request
Evaluate(t) ==
    /\ pc[t] = "eval"
    /\ LET client == ref[t]
           now == clock
           d == Decide(requests[client], now, maxRequests)
           k == key[t]
       IN  /\ ref' = [ref EXCEPT ![t] = NoCounter]
           /\ requests' = Collect([requests EXCEPT ![client] = d.requests],
                                  clients, ref')
           /\ cmu' = Unlock(cmu, client)
           /\ last' = Handled(k, path[t], d.allowed, d.retryAfter,
                              Respond(d.allowed, d.retryAfter))
           /\ admitted' = IF d.allowed
                          THEN [admitted EXCEPT ![k] = Append(@, now)]
                          ELSE admitted
           /\ notBefore' = IF d.allowed
                              \/ Oldest(d.requests) + windowSize <= now
                           THEN notBefore
                           ELSE [notBefore EXCEPT ![k] =
                                   IF @ > Oldest(d.requests) + windowSize
                                   THEN @
                                   ELSE Oldest(d.requests) + windowSize]
           /\ retryAt' = [retryAt EXCEPT ![k] =
                            IF d.allowed THEN 0
                            ELSE now + d.retryAfter * TicksPerSecond]
           /\ fresh' = [fresh EXCEPT ![k] =
                            IF @ < maxRequests THEN @ + 1 ELSE @]
    /\ pc' = [pc EXCEPT ![t] = "done"]
    /\ key' = [key EXCEPT ![t] = ""]
    /\ path' = [path EXCEPT ![t] = ""]
    /\ UNCHANGED <<cfgVars, httpVars, stops, clock, skews, clients, rlmu, sweepVars,
                   tickPending, swept, idleAtSweep>>

\* ------------------------------------------------------------ cleanup
\* A client with no request in flight and no admission in the last
\* windowSize (the history holds the admissions at or after clock -
\* windowSize)
Idle(k) == InFlight(k, pc, key) = {} /\ admitted[k] = <<>>

\* ratelimit.go:45-47: a tick is received, rl.mu.Lock(), now := time.Now();
\* the range loop will visit the keys the map holds
SweepBegin ==
    /\ spc = "wait"
    /\ tickPending
    /\ rlmu = "free"
    /\ tickPending' = FALSE
    /\ rlmu' = "sweeper"
    /\ snow' = clock
    /\ todo' = {k \in Clients : clients[k] # NoCounter}
    /\ spc' = "scan"
    /\ idleAtSweep' = {k \in Clients : clients[k] # NoCounter /\ Idle(k)}
    /\ UNCHANGED <<cfgVars, httpVars, stops, clock, skews, clients, requests, cmu, reqVars,
                   scur, soldest, admitted, swept, notBefore, retryAt, fresh, last>>

\* The registry entry of clientID is deleted (ratelimit.go:53 and 64)
Delete(clientID) ==
    /\ clients' = [clients EXCEPT ![clientID] = NoCounter]
    /\ requests' = Collect(requests, clients', ref)
    /\ swept' = IF Pristine(clientID, admitted, clock, pc, key)
                THEN swept ELSE swept \cup {clientID}
    /\ fresh' = IF clientID \in idleAtSweep
                THEN [fresh EXCEPT ![clientID] = 0] ELSE fresh

\* ratelimit.go:49-60: client.mu.RLock() (waits for a writer to leave), an
\* empty counter is deleted at once, else its oldest timestamp is read
SweepRead(clientID) ==
    /\ spc = "scan"
    /\ clientID \in todo
    /\ cmu[clients[clientID]] = 0
    /\ todo' = todo \ {clientID}
    /\ IF Len(requests[clients[clientID]]) = 0
       THEN /\ Delete(clientID)
            /\ UNCHANGED <<spc, scur, soldest>>
       ELSE /\ soldest' = Oldest(requests[clients[clientID]])
            /\ scur' = clientID
            /\ spc' = "check"
            /\ UNCHANGED <<clients, requests, swept, fresh>>
    /\ UNCHANGED <<cfgVars, httpVars, stops, clock, skews, cmu, rlmu, reqVars, snow,
                   tickPending, admitted, notBefore, retryAt, idleAtSweep, last>>

\* ratelimit.go:62-65
SweepCheck ==
    /\ spc = "check"
    /\ IF isStale(snow, soldest)
       THEN Delete(scur)
       ELSE UNCHANGED <<clients, requests, swept, fresh>>
    /\ spc' = "scan"
    /\ scur' = ""
    /\ soldest' = 0
    /\ UNCHANGED <<cfgVars, httpVars, stops, clock, skews, cmu, rlmu, reqVars, snow, todo,
                   tickPending, admitted, notBefore, retryAt, idleAtSweep,
                   last>>

\* ratelimit.go:68: the loop is over, rl.mu.Unlock(); back to the ticker
SweepEnd ==
    /\ spc = "scan"
    /\ todo = {}
    /\ rlmu' = "free"
    /\ spc' = "wait"
    /\ snow' = 0
    /\ idleAtSweep' = {}
    /\ UNCHANGED <<cfgVars, httpVars, stops, clock, skews, clients, requests, cmu, reqVars,
                   todo, scur, soldest, tickPending, admitted, swept, notBefore,
                   retryAt, fresh, last>>

\* ---------------------------------------------------------------- time
\* Time passes: the ticker, unless stopped, fires when its period is over,
\* and what lies a whole window back leaves the history
Tick ==
    /\ clock < MaxTime
    /\ clock' = clock + 1
    /\ tickPending' = (tickPending \/ (TickDue(clock') /\ stops = 0))
    /\ admitted' = [k \in Clients |->
                      SelectSeq(admitted[k],
                                LAMBDA a : a >= clock' - windowSize)]
    /\ notBefore' = [k \in Clients |->
                      IF notBefore[k] <= clock' THEN 0 ELSE notBefore[k]]
    /\ retryAt' = [k \in Clients |->
                      IF retryAt[k] < clock' THEN 0 ELSE retryAt[k]]
    /\ swept' = {k \in swept : ~Pristine(k, admitted', clock', pc, key)}
    /\ UNCHANGED <<cfgVars, httpVars, stops, skews, clients, requests, cmu, rlmu, reqVars,
                   sweepVars, idleAtSweep, fresh, last>>

Next ==
    \/ \E t \in Threads, clientID \in Clients, p \in Paths :
          Lookup(t, clientID, p)
    \/ \E t \in Threads : LockClient(t)
    \/ \E t \in Threads : Evaluate(t)
    \/ SweepBegin
    \/ \E clientID \in Clients : SweepRead(clientID)
    \/ SweepCheck
    \/ SweepEnd
    \/ Tick

Spec == Init /\ [][Next]_vars

SpecClients == InitClients /\ [][Next]_vars

NextMiddleware ==
    \/ Next
    \/ \E t \in Threads, p \in Paths : Bypass(t, p)

SpecMiddleware == InitMiddleware /\ [][NextMiddleware]_vars

\* The clock is set back: time.Now() returns an earlier reading than before
ClockBack ==
    /\ skews < MaxSkews
    /\ skews' = skews + 1
    /\ clock' \in 0..(clock - 1)
    /\ UNCHANGED <<cfgVars, httpVars, stops, clients, requests, cmu, rlmu, reqVars, sweepVars,
                   tickPending, histVars>>

NextSkew == Next \/ ClockBack

SpecSkew == InitSkew /\ [][NextSkew]_vars

\* What Stop leaves of a tick that was sent and has started no sweep yet.
\* With go 1.24 (go.mod) a tick that still sits in the channel is discarded
\* by Stop: that is the case while cleanup is busy with a sweep.  While
\* cleanup is at the receive of line 45 it may have taken the tick already,
\* with rl.mu.Lock() of line 46 still to come: that tick stays
TickAfterStop ==
    IF spc = "wait" THEN {tickPending, FALSE} ELSE {FALSE}

\* ratelimit.go:73-75: cleanupTicker.Stop() lets the ticker send no further
\* tick; it takes no lock of the limiter, signals nothing to cleanup, does
\* not close cleanupTicker.C, and may be called again
Stop ==
    /\ stops < MaxStops
    /\ stops' = stops + 1
    /\ tickPending' \in TickAfterStop
    /\ UNCHANGED <<cfgVars, httpVars, clock, skews, clients, requests, cmu,
                   rlmu, reqVars, sweepVars, histVars>>

NextStop == Next \/ Stop

\* The steps of request goroutine t
Handler(t) ==
    \/ \E clientID \in Clients, p \in Paths : Lookup(t, clientID, p)
    \/ LockClient(t)
    \/ Evaluate(t)

\* The steps of the cleanup goroutine.  The loop of line 45 ranges over
\* cleanupTicker.C and ends only when that channel is closed; nothing closes
\* it, so after SweepEnd the goroutine is back at the receive and there is no
\* step that leaves the loop
Sweeper ==
    \/ SweepBegin
    \/ \E clientID \in Clients : SweepRead(clientID)
    \/ SweepCheck
    \/ SweepEnd

\* The Go scheduler runs every goroutine that can run: the request
\* goroutines, the cleanup goroutine and the callers of Stop
Fairness ==
    /\ \A t \in Threads : WF_vars(Handler(t))
    /\ WF_vars(Sweeper)
    /\ WF_vars(Stop)

SpecStop == InitStop /\ [][NextStop]_vars /\ Fairness

\* ratelimit.go:161: clientIP := getClientIP(r)
GetClientIP ==
    /\ clientIP = NoResult
    /\ clientIP' = getClientIP(request)
    /\ UNCHANGED <<cfgVars, request, stops, clock, skews, clients, requests,
                   cmu, rlmu, reqVars, sweepVars, tickPending, histVars>>

NextClientIP == GetClientIP

SpecClientIP == InitClientIP /\ [][NextClientIP]_vars

\* ============================================================== claims

\* Number of admissions of client k with a timestamp in [t, t + windowSize)
AdmittedIn(k, t) ==
    Cardinality({i \in 1..Len(admitted[k]) :
                    t <= admitted[k][i] /\ admitted[k][i] < t + windowSize})

\* C1: for every client and every instant t, the number of that client's
\* admitted requests with timestamps in [t, t + windowSize) never exceeds
\* maxRequests, whatever the interleaving of requests and sweeps.
C1_AdmissionCount ==
    \A k \in Clients : \A t \in Times : AdmittedIn(k, t) <= maxRequests

\* Goroutine t takes its decision in this step
Decides(t) == pc[t] = "eval" /\ pc'[t] = "done"

\* The client's admissions inside the window ending now
Counted(k) == Len(InWindow(admitted[k], clock))

\* C2: when several requests of one client run isAllowed concurrently and no
\* sweep takes the client's entry meanwhile, at most maxRequests of them are
\* admitted inside one window, under every interleaving.
C2_ConcurrentAdmissions ==
    \A k \in Clients : k \notin swept => Counted(k) <= maxRequests

\* C2 witness: a request was denied with maxRequests admissions counted while
\* another request of the client, looked up before, still waits for the lock
C2_Witness ==
    /\ maxRequests = 2
    /\ "A" \notin swept
    /\ last.key = "A" /\ ~last.allowed
    /\ Counted("A") = maxRequests
    /\ \E t \in Threads : pc[t] = "lock" /\ key[t] = "A"
                          /\ ref[t] = clients["A"]

\* C3: a request of a client whose entry no sweep removed is admitted if and
\* only if fewer than maxRequests earlier admissions of that client have a
\* timestamp strictly greater than now - windowSize.
C3_AdmitIffBelowLimit ==
    [][\A t \in Threads :
          (Decides(t) /\ key[t] \notin swept)
          => (last'.allowed <=> Counted(key[t]) < maxRequests)]_vars

\* C3 witness: a client no sweep touched got maxRequests admissions and then
\* a denial
C3_Witness ==
    /\ maxRequests = 2
    /\ "A" \notin swept
    /\ last.key = "A" /\ ~last.allowed
    /\ Counted("A") = 2

\* The registry's counter of client k is full
AtCapacity(k) ==
    /\ clients[k] # NoCounter
    /\ Len(requests[clients[k]]) >= maxRequests

\* C4: when a client is at capacity with oldest counted timestamp o, a
\* request of it decided at now >= o + windowSize, no admission in between,
\* is admitted.
C4_Recovery ==
    [][\A t \in Threads :
          (/\ Decides(t)
           /\ AtCapacity(key[t])
           /\ clock >= requests[clients[key[t]]][1] + windowSize)
          => last'.allowed]_vars

\* C5: once a client was denied while its oldest counted timestamp was o, no
\* request of it is admitted before o + windowSize.
C5_MonotonicRecovery ==
    [][\A t \in Threads :
          (Decides(t) /\ last'.allowed) => clock >= notBefore[key[t]]]_vars

\* Goroutine t takes a step of its request in this step
Steps(t) == pc'[t] # pc[t]

\* The client whose request goroutine t is stepping
StepKey(t) == IF pc[t] = "idle" THEN key'[t] ELSE key[t]

\* C6: no step of a request of client A changes client B's registry entry,
\* timestamp sequence or admissions, and B's outcome is decided by B's own
\* admissions alone, whatever A sent.
C6_Independence ==
    [][\A t \in Threads :
          /\ Steps(t) =>
                \A k \in Clients \ {StepKey(t)} :
                    /\ clients'[k] = clients[k]
                    /\ admitted'[k] = admitted[k]
                    /\ clients[k] # NoCounter =>
                          requests'[clients[k]] = requests[clients[k]]
          /\ (Decides(t) /\ key[t] \notin swept) =>
                (last'.allowed <=> Counted(key[t]) < maxRequests)]_vars

\* C6 witness: A is at capacity and was denied, and B's request is admitted
C6_Witness ==
    /\ AtCapacity("A")
    /\ notBefore["A"] > clock
    /\ last.key = "B" /\ last.allowed
    /\ Counted("A") = maxRequests

\* C7 as stated: on every denial 1 <= retry-after <= windowSize in seconds.
C7_RetryAfterWithinWindow ==
    ~last.allowed =>
        (1 <= last.retryAfter /\ last.retryAfter <= WindowSeconds)

\* C7 as amended: on every denial 1 <= retry-after <= windowSize + 1 in
\* seconds; windowSize + 1 is returned when the denial is decided at the very
\* instant of the oldest counted timestamp.
C7_RetryAfterBounds ==
    ~last.allowed =>
        (1 <= last.retryAfter /\ last.retryAfter <= WindowSeconds + 1)

\* C7 witness: a denial that returns windowSize + 1 seconds
C7_Witness == ~last.allowed /\ last.retryAfter = WindowSeconds + 1

\* C8: a client denied at now with retry-after r, no request of it decided in
\* between, has its request decided at now + r seconds admitted.
C8_RetrySufficient ==
    [][\A t \in Threads :
          (Decides(t) /\ retryAt[key[t]] # 0 /\ retryAt[key[t]] = clock)
          => last'.allowed]_vars

\* C9: on every denial, also when the clock was set back behind a stored
\* timestamp, the retry-after value is at least 1.
C9_RetryAfterPositive == ~last.allowed => last.retryAfter >= 1

\* C9 witness: a denial decided at a reading earlier than the oldest counted
\* timestamp (only then does retry-after exceed windowSize + 1 seconds)
C9_Witness == ~last.allowed /\ last.retryAfter > WindowSeconds + 1

\* The sweep has gone past client k
Visited(k) == spc \in {"scan", "check"} /\ k \notin todo /\ scur # k

\* C10: once a sweep has gone past a client that was idle for longer than
\* windowSize its registry entry is gone, and the client's next maxRequests
\* requests are admitted like a brand-new client's.
C10_EvictionSafety ==
    /\ [](\A k \in idleAtSweep : Visited(k) => clients[k] = NoCounter)
    /\ [][\A t \in Threads :
            (Decides(t) /\ fresh[key[t]] < maxRequests) => last'.allowed]_vars

\* C10 witness: after its entry was swept the idle client got maxRequests
\* further requests decided, the last one admitted
C10_Witness ==
    /\ maxRequests = 2
    /\ fresh["A"] = maxRequests
    /\ last.key = "A" /\ last.allowed

\* The health paths of the middleware
HealthPaths == {"/healthz", "/livez", "/readyz"}

\* C11: a request whose path is /healthz, /livez or /readyz is forwarded to
\* the downstream handler and never answered with 429, whatever the state of
\* the limiter and however many requests came before.
C11_BypassCorrectness ==
    last.path \in HealthPaths =>
        (last.forwarded = 1 /\ last.status # StatusTooManyRequests)

\* C11 witness: the client is at capacity and was just denied, and a request
\* to /readyz has been forwarded
C11_Witness ==
    /\ AtCapacity("A")
    /\ notBefore["A"] > clock
    /\ last.path = "/readyz"
    /\ last.forwarded = 1

\* The number a decimal header value stands for: strconv.Atoi
RECURSIVE Atoi(_)
Atoi(s) ==
    IF s = <<>> THEN 0
    ELSE IF Head(s) = "-" THEN -Atoi(Tail(s))
    ELSE LET d == CHOOSE v \in 0..9 : DigitChars[v + 1] = s[Len(s)]
         IN  10 * Atoi(SubSeq(s, 1, Len(s) - 1)) + d

\* C12: every request that is not on a bypass path is either admitted and
\* handed to the downstream handler exactly once, or denied and answered with
\* status 429, Content-Type application/json, a Retry-After header equal to
\* the decision's retry-after value and the rate_limit_exceeded body, the
\* downstream handler not being invoked.
C12_ExactlyOneOutcome ==
    (last.path # "" /\ last.path \notin HealthPaths) =>
        \/ /\ last.allowed
           /\ last.forwarded = 1
           /\ last.status = NoStatus
           /\ last.body = NoBody
        \/ /\ ~last.allowed
           /\ last.forwarded = 0
           /\ last.status = 429
           /\ last.contentType = "application/json"
           /\ last.retryAfterHeader # <<>>
           /\ Atoi(last.retryAfterHeader) = last.retryAfter
           /\ last.body.error = "rate_limit_exceeded"

\* C12 witness: a request on the limited path was denied with a two-second
\* Retry-After header
C12_Witness ==
    /\ last.path = "/api"
    /\ ~last.allowed
    /\ last.status = 429
    /\ last.retryAfterHeader = <<"2">>

\* C13: when several first requests of a previously unseen client run
\* concurrently and no sweep comes between them, one registry entry is
\* created, every one of the requests evaluates against that counter, and
\* every admission is recorded in the registry's entry.
C13_ExactlyOnceCreation ==
    \A k \in Clients :
        k \notin swept =>
            /\ \A t \in InFlight(k, pc, key) : ref[t] = clients[k]
            /\ InWindow(admitted[k], clock) =
                  IF clients[k] = NoCounter THEN <<>>
                  ELSE InWindow(requests[clients[k]], clock)

\* C13 witness: before the first sweep, one first request of the client has
\* been admitted and two more hold the counter it created
C13_Witness ==
    /\ clock < windowSize
    /\ "A" \notin swept
    /\ Len(admitted["A"]) = 1
    /\ Cardinality(InFlight("A", pc, key)) >= 2
    /\ \A t \in InFlight("A", pc, key) : ref[t] = clients["A"]

\* u is s without its leading and trailing blanks
IsTrimOf(u, s) ==
    \E i \in 1..(Len(s) + 1), j \in 0..Len(s) :
        /\ u = SubSeq(s, i, j)
        /\ \A m \in 1..(i - 1) : s[m] = " "
        /\ \A m \in (j + 1)..Len(s) : s[m] = " "
        /\ u # <<>> => (u[1] # " " /\ u[Len(u)] # " ")

\* e is the first comma-separated entry of s
IsFirstEntry(e, s) ==
    \E n \in 0..Len(s) :
        /\ e = SubSeq(s, 1, n)
        /\ \A m \in 1..n : s[m] # ","
        /\ n < Len(s) => s[n + 1] = ","

\* The runs of consecutive characters of s
Parts(s) == {SubSeq(s, i, j) : i \in 1..(Len(s) + 1), j \in 0..Len(s)}

\* C14: getClientIP returns the first comma-separated entry of
\* X-Forwarded-For, trimmed, whenever that header is non-empty, whatever
\* X-Real-IP and the socket address are; otherwise the trimmed X-Real-IP when
\* that header is non-empty; otherwise a value derived from the socket address
\* alone.
C14_ClientIdentification ==
    clientIP # NoResult =>
        IF request.xff # <<>>
        THEN \E e \in Parts(request.xff) :
                IsFirstEntry(e, request.xff) /\ IsTrimOf(clientIP, e)
        ELSE IF request.xri # <<>>
        THEN IsTrimOf(clientIP, request.xri)
        ELSE clientIP \in Parts(request.remoteAddr)

\* C14 witness: X-Forwarded-For " 1,", X-Real-IP ":" and a socket address
\* with brackets gave "1"
C14_Witness ==
    /\ request = Request(<<" ", "1", ",">>, <<":">>,
                         <<"[", "1", "]", ":", "1">>)
    /\ clientIP = <<"1">>

\* None of the characters of s is in set
Without(s, set) == \A m \in 1..Len(s) : s[m] \notin set

\* a reads host ":" port, host given, without brackets and further colons
IsHostPort(a, host) ==
    /\ Len(a) > Len(host)
    /\ host = SubSeq(a, 1, Len(host))
    /\ a[Len(host) + 1] = ":"
    /\ Without(host, {":", "[", "]"})
    /\ Without(SubSeq(a, Len(host) + 2, Len(a)), {":", "[", "]"})

\* a reads "[" lit "]" ":" port, lit given
IsBracketedHostPort(a, lit) ==
    /\ Len(a) >= Len(lit) + 3
    /\ a[1] = "["
    /\ lit = SubSeq(a, 2, Len(lit) + 1)
    /\ a[Len(lit) + 2] = "]"
    /\ a[Len(lit) + 3] = ":"
    /\ Without(lit, {"[", "]"})
    /\ Without(SubSeq(a, Len(lit) + 4, Len(a)), {":", "[", "]"})

\* a reads "[" lit "]", lit given: a bracketed literal without a port
IsBracketed(a, lit) ==
    /\ Len(a) = Len(lit) + 2
    /\ a[1] = "["
    /\ lit = SubSeq(a, 2, Len(lit) + 1)
    /\ a[Len(a)] = "]"
    /\ Without(lit, {"[", "]"})

\* C15 as stated: with neither forwarding header present getClientIP returns
\* the host without the port for an address host:port, the literal without
\* its brackets for an IPv6 literal wrapped in brackets, with a port or
\* without, and the raw address in every other case.
C15_BracketsAlwaysStripped ==
    (clientIP # NoResult /\ request.xff = <<>> /\ request.xri = <<>>) =>
        LET a == request.remoteAddr
            form(h) == \/ IsHostPort(a, h)
                       \/ IsBracketedHostPort(a, h)
                       \/ IsBracketed(a, h)
        IN  /\ \A h \in Parts(a) : form(h) => clientIP = h
            /\ (\A h \in Parts(a) : ~form(h)) => clientIP = a

\* C15 as amended: with neither forwarding header present getClientIP returns
\* the host without the port for an address host:port, the literal without
\* brackets and port for a bracketed IPv6 literal followed by a port, and the
\* raw address in every other case, a bracketed literal without a port
\* included; it returns a string for every input.
C15_SocketAddressFallback ==
    (clientIP # NoResult /\ request.xff = <<>> /\ request.xri = <<>>) =>
        LET a == request.remoteAddr
        IN  /\ \A h \in Parts(a) :
                  (IsHostPort(a, h) \/ IsBracketedHostPort(a, h))
                  => clientIP = h
            /\ (\A h \in Parts(a) :
                  ~IsHostPort(a, h) /\ ~IsBracketedHostPort(a, h))
                  => clientIP = a
            /\ clientIP \in Seq(Chars)

\* C15 witness: the socket address "[:]:1" gave ":"
C15_Witness ==
    /\ request = Request(<<>>, <<>>, <<"[", ":", "]", ":", "1">>)
    /\ clientIP = <<":">>

\* C16: a sweep removes a client's registry entry only when the entry holds
\* no timestamp or every one of its timestamps is <= now - windowSize, now
\* being the sweep's clock reading; an entry that holds a timestamp inside
\* the window stays.
C16_SweepRemovesOnlyExpired ==
    [][\A k \in Clients :
          (clients[k] # NoCounter /\ clients'[k] = NoCounter) =>
              \A i \in 1..Len(requests[clients[k]]) :
                  requests[clients[k]][i] <= snow - windowSize]_vars

\* C17: a sweep that runs while a request is in flight loses no admission:
\* the timestamp of an admitted request goes into the counter the registry
\* maps the client key to, and the sweeper deletes no entry that a request
\* in flight has looked up.
C17_NoLostAdmission ==
    [][/\ \A t \in Threads :
            (Decides(t) /\ last'.allowed) => clients'[key[t]] = ref[t]
       /\ \A k \in Clients :
            (clients[k] # NoCounter /\ clients'[k] = NoCounter) =>
                InFlight(k, pc, key) = {}]_vars

\* The time until the oldest timestamp that remains in the counter of
\* goroutine t leaves the window, at the instant t decides
Remaining(t) ==
    LET left == SelectSeq(requests[ref[t]],
                          LAMBDA a : a > clock - windowSize)
    IN  (left[1] + windowSize) - clock

\* d, a number of ticks, in seconds, rounded up
CeilSeconds(d) ==
    IF d % TicksPerSecond = 0 THEN d \div TicksPerSecond
    ELSE (d \div TicksPerSecond) + 1

\* C18 as stated: on denial the retry-after value is
\* ceil((oldest remaining timestamp + windowSize) - now) in seconds, raised
\* to 1 when not positive, also for a remaining time of whole seconds.
C18_RetryAfterCeil ==
    [][\A t \in Threads :
          (Decides(t) /\ ~last'.allowed) =>
              last'.retryAfter =
                  IF CeilSeconds(Remaining(t)) < 1 THEN 1
                  ELSE CeilSeconds(Remaining(t))]_vars

\* C18 as amended: on denial the retry-after value is the whole seconds of
\* (oldest remaining timestamp + windowSize) - now plus one: the ceiling of
\* the remaining time when that is not a whole number of seconds, and one
\* second more than it when it is; the value is at least 1.
C18_RetryAfterFloorPlusOne ==
    [][\A t \in Threads :
          (Decides(t) /\ ~last'.allowed) =>
              /\ Remaining(t) > 0
              /\ last'.retryAfter >= 1
              /\ last'.retryAfter =
                    IF Remaining(t) % TicksPerSecond = 0
                    THEN CeilSeconds(Remaining(t)) + 1
                    ELSE CeilSeconds(Remaining(t))]_vars

\* C18 witness: a denial decided exactly one second before the oldest
\* timestamp leaves the window returned 2
C18_Witness ==
    /\ ~last.allowed /\ last.key = "A"
    /\ "A" \notin swept
    /\ last.retryAfter = 2
    /\ retryAt["A"] = clock + 2 * TicksPerSecond
    /\ clients["A"] # NoCounter
    /\ requests[clients["A"]][1] + windowSize = clock + TicksPerSecond

\* C19: a denied request consumes no slot: the denial appends nothing, after
\* it the counter holds exactly the timestamps that were inside the window
\* before it, and the client's admissions, hence the instant of its next
\* admission, stay as they were.
C19_DenialConsumesNoSlot ==
    [][\A t \in Threads :
          (Decides(t) /\ ~last'.allowed) =>
              /\ ref[t] \in Live(clients', ref') =>
                    requests'[ref[t]] =
                        SelectSeq(requests[ref[t]],
                                  LAMBDA a : a > clock - windowSize)
              /\ admitted' = admitted]_vars

\* C19 witness: with maxRequests = 2, all four requests are decided, the
\* last one denied just now, and the registry's counter holds the two
\* admissions of the window and nothing else
C19_Witness ==
    /\ maxRequests = 2
    /\ \A t \in Threads : pc[t] = "done"
    /\ ~last.allowed /\ last.key = "A"
    /\ retryAt["A"] = clock + last.retryAfter * TicksPerSecond
    /\ "A" \notin swept
    /\ clients["A"] # NoCounter
    /\ requests[clients["A"]] = InWindow(admitted["A"], clock)
    /\ Len(requests[clients["A"]]) = 2

\* C20: under every interleaving of admission checks, sweeps and calls of
\* Stop, every isAllowed call returns its decision and every call of Stop
\* returns; a second call of Stop can always be made, changes nothing of the
\* limiter and returns as well.
C20_NoDeadlock ==
    /\ \A t \in Threads : (t <= calls) ~> (pc[t] = "done")
    /\ <>(stops = MaxStops)
    /\ [](stops < MaxStops => ENABLED Stop)
    /\ [][stops' # stops =>
            UNCHANGED <<clients, requests, cmu, rlmu, reqVars, sweepVars>>]_vars

\* C20 witness: Stop has returned for the second time while the sweeper
\* holds the registry lock and waits for the counter whose lock a request
\* holds, another request having returned before
C20_Witness ==
    /\ stops = MaxStops
    /\ spc = "scan" /\ rlmu = "sweeper"
    /\ \E t \in Threads : pc[t] = "eval" /\ ref[t] = clients["A"]
    /\ "A" \in todo
    /\ last.key = "A"

\* C21: once Stop has been called the cleanup goroutine eventually ends:
\* its loop is left and it is no longer at the receive, in a sweep or
\* anywhere else in cleanup.
C21_SweeperTerminates ==
    (stops > 0) ~> (spc \notin {"wait", "scan", "check"})

\* C22: once Stop has returned no sweep starts and no registry entry is
\* removed any more.
C22_NoSweepAfterStop ==
    [][stops > 0 =>
          /\ ~(spc = "wait" /\ spc' = "scan")
          /\ \A k \in Clients :
                clients[k] # NoCounter => clients'[k] # NoCounter]_vars

\* C23: a client's timestamp sequence is read and written only under that
\* client's lock and the registry map only under the registry lock: the
\* goroutine that evaluates a counter holds its lock and no other goroutine
\* does, a sequence changes only in the step of the holder of its lock, the
\* sweeper reads a sequence only while no writer holds its lock, the map
\* changes only in a lookup that found the registry lock free or in the
\* sweeper holding it, and no lookup happens while the sweeper holds it.
C23_LockDiscipline ==
    /\ [](\A t \in Threads : pc[t] = "eval" => cmu[ref[t]] = t)
    /\ [](\A c \in Counters :
            cmu[c] # 0 => (pc[cmu[c]] = "eval" /\ ref[cmu[c]] = c))
    /\ [][\A c \in Counters :
            requests'[c] # requests[c] =>
                \/ \E t \in Threads :
                      Decides(t) /\ ref[t] = c /\ cmu[c] = t
                \/ c \notin Live(clients', ref')]_vars
    /\ [][(spc = "scan" /\ todo' # todo) =>
            \A k \in todo \ todo' : cmu[clients[k]] = 0]_vars
    /\ [][clients' # clients =>
            \/ rlmu = "sweeper" /\ \A t \in Threads : ~Steps(t)
            \/ rlmu = "free" /\ \E t \in Threads :
                                   pc[t] = "idle" /\ pc'[t] = "lock"]_vars
    /\ [][rlmu = "sweeper" =>
            \A t \in Threads : ~(pc[t] = "idle" /\ Steps(t))]_vars

\* C23 witness: one request holds the lock of the client's counter, a second
\* one waits for it, and the sweeper, holding the registry lock, has that
\* counter still to read
C23_Witness ==
    /\ spc = "scan" /\ rlmu = "sweeper" /\ "A" \in todo
    /\ \E t, u \in Threads :
          /\ pc[t] = "eval" /\ ref[t] = clients["A"]
          /\ pc[u] = "lock" /\ ref[u] = clients["A"]
    /\ Len(requests[clients["A"]]) >= 1

\* Request goroutines start in the order of their numbers (IsNextThread), so
\* of two requests in flight the one with the lower number did its registry
\* lookup first
LookedUpBefore(u, t) ==
    u < t /\ pc[u] \in {"lock", "eval"} /\ pc[t] \in {"lock", "eval"}

\* C24: the decisions of one client are taken in the order of the registry
\* lookups: no request is decided while a request of the same client that
\* looked the entry up earlier is still undecided.
C24_DecisionsInArrivalOrder ==
    [][\A t \in Threads :
          Decides(t) =>
              \A u \in Threads :
                  ~(LookedUpBefore(u, t) /\ key[u] = key[t])]_vars

\* The sweeper ends its examination of one entry and has more to examine
EntryDone ==
    /\ todo' # {}
    /\ \/ spc = "check" /\ spc' = "scan"
       \/ spc = "scan" /\ spc' = "scan" /\ todo' # todo

\* C25: the sweeper does not hold the registry lock over a whole scan:
\* between its examination of two entries the registry lock is free, so that
\* a request can do its lookup there.
C25_LockFreeBetweenEntries ==
    [][EntryDone => rlmu' = "free"]_vars

\* Goroutine t takes a step of a request on a health path
HealthStep(t) ==
    /\ Steps(t)
    /\ IF pc[t] = "idle"
       THEN pc'[t] = "done" \/ path'[t] \in HealthPaths
       ELSE path[t] \in HealthPaths

\* C26: a request on a bypass path does not consult the limiter: it creates
\* no registry entry, takes no lock, changes no timestamp sequence and no
\* client's admissions, so that the requests on other paths are decided by
\* the admissions on those paths alone.
C26_BypassFrame ==
    [][\A t \in Threads :
          /\ HealthStep(t) =>
                UNCHANGED <<clients, requests, cmu, rlmu, admitted, key, ref>>
          /\ (Decides(t) /\ key[t] \notin swept) =>
                /\ path[t] \notin HealthPaths
                /\ last'.allowed <=> Counted(key[t]) < maxRequests]_vars

\* C26 witness: a request to /livez has been forwarded while the client's
\* counter holds one admission and another request of the client waits for
\* the counter's lock
C26_Witness ==
    /\ last.path = "/livez" /\ last.forwarded = 1
    /\ maxRequests = 2
    /\ clients["A"] # NoCounter
    /\ requests[clients["A"]] = <<clock>>
    /\ \E t \in Threads : pc[t] = "lock" /\ ref[t] = clients["A"]

\* C27: right after every evaluation of a counter, admit or deny, every
\* timestamp it keeps is strictly greater than now - windowSize, every
\* timestamp it held that is greater than that is kept, and every timestamp
\* <= now - windowSize, the one equal to the cutoff included, is dropped.
C27_PrunedAfterEvaluation ==
    [][\A t \in Threads :
          (Decides(t) /\ ref[t] \in Live(clients', ref')) =>
              LET before == requests[ref[t]]
                  after == requests'[ref[t]]
              IN  /\ \A i \in 1..Len(after) : after[i] > clock - windowSize
                  /\ \A i \in 1..Len(before) :
                        before[i] > clock - windowSize
                        <=> \E j \in 1..Len(after) : after[j] = before[i]
                               /\ (last'.allowed => j < Len(after))]_vars

\* C27 witness: a request decided exactly windowSize after the client's
\* previous admission found that timestamp at the cutoff, dropped it and was
\* admitted
C27_Witness ==
    /\ maxRequests = 1
    /\ "A" \notin swept
    /\ last.key = "A" /\ last.allowed
    /\ admitted["A"] = <<clock - windowSize, clock>>
    /\ clients["A"] # NoCounter
    /\ requests[clients["A"]] = <<clock>>

\* C28: with a clock that does not go back every counter's sequence is in
\* non-decreasing order, so that its first element is its oldest timestamp,
\* and what an evaluation prunes is a prefix of the sequence: what it keeps
\* is the sequence's tail.
C28_ChronologicalOrder ==
    /\ [](\A c \in Counters :
            \A i, j \in 1..Len(requests[c]) :
                i < j => requests[c][i] <= requests[c][j])
    /\ [][\A t \in Threads :
            Decides(t) =>
                LET before == requests[ref[t]]
                    kept == SelectSeq(before,
                                      LAMBDA a : a > clock - windowSize)
                IN  kept = SubSeq(before, Len(before) - Len(kept) + 1,
                                  Len(before))]_vars

\* C28 witness: the counter held two timestamps, the older one at the cutoff;
\* the evaluation dropped that one, kept the newer one and appended now
C28_Witness ==
    /\ maxRequests = 2
    /\ "A" \notin swept
    /\ last.key = "A" /\ last.allowed
    /\ Len(admitted["A"]) = 3
    /\ admitted["A"][1] = clock - windowSize
    /\ clients["A"] # NoCounter
    /\ requests[clients["A"]] = <<admitted["A"][2], clock>>
    /\ admitted["A"][2] < clock

\* C29: every counter's sequence, that of a counter a sweep has removed
\* from the registry included, holds at most maxRequests timestamps.
C29_SequenceLength ==
    \A c \in Counters : Len(requests[c]) <= maxRequests

\* C29 witness: a counter that is no longer in the registry, still held by a
\* request, is full, and so is the counter the registry has for the client
C29_Witness ==
    /\ clients["A"] # NoCounter
    /\ Len(requests[clients["A"]]) = maxRequests
    /\ \E t \in Threads :
          /\ pc[t] = "lock" /\ key[t] = "A"
          /\ ref[t] # clients["A"]
          /\ Len(requests[ref[t]]) = maxRequests

\* C30: with maxRequests >= 1 neither isAllowed nor cleanup reads the first
\* element of an empty sequence: a denial is decided on a pruned sequence
\* that is not empty, and cleanup reads the oldest timestamp of a sequence it
\* found non-empty in the same step, under the same hold of the lock.
C30_NoEmptyRead ==
    /\ [](maxRequests >= 1)
    /\ [](spc = "check" => soldest # OutOfRange)
    /\ [][\A t \in Threads :
            (Decides(t) /\ ~last'.allowed) =>
                SelectSeq(requests[ref[t]],
                          LAMBDA a : a > clock - windowSize) # <<>>]_vars
    /\ [][(spc = "scan" /\ spc' = "check") =>
            /\ Len(requests[clients[scur']]) >= 1
            /\ soldest' = requests[clients[scur']][1]]_vars

\* C30 witness: a request has been denied on a full counter, and cleanup has
\* read the oldest timestamp of that counter
C30_Witness ==
    /\ ~last.allowed /\ last.key = "A"
    /\ spc = "check" /\ scur = "A"
    /\ clients["A"] # NoCounter
    /\ Len(requests[clients["A"]]) = maxRequests
    /\ soldest = requests[clients["A"]][1]

====
